---- MODULE Spec2Model ----
(***************************************************************************)
(* Model of the ICAO Field 15 route parser of traffic-rs                   *)
(* (crates/trafficrs/src/data/field15.rs).                                 *)
(*                                                                         *)
(* A Rust &str is modelled as the sequence of its UTF-8 bytes.  An ASCII   *)
(* byte is written as the one-character string of its character ("N",      *)
(* "0", "/"); a byte >= 0x80 is written as its two hexadecimal digits      *)
(* ("C3", "A9").  Lengths and slice indices are byte offsets, as in Rust,  *)
(* and slicing off a character boundary aborts the program (a panic).      *)
(***************************************************************************)
EXTENDS Integers, Sequences, FiniteSets, TLC

\* ------------------------------------------------------------------------
\* Strings as UTF-8 byte sequences
\* ------------------------------------------------------------------------

\* The bytes of an ASCII string literal.
Bytes(s) == [k \in 1..Len(s) |-> SubSeq(s, k, k)]

DigitChars == <<"0", "1", "2", "3", "4", "5", "6", "7", "8", "9">>
UpperChars == <<"A", "B", "C", "D", "E", "F", "G", "H", "I", "J", "K", "L", "M",
                "N", "O", "P", "Q", "R", "S", "T", "U", "V", "W", "X", "Y", "Z">>
LowerChars == <<"a", "b", "c", "d", "e", "f", "g", "h", "i", "j", "k", "l", "m",
                "n", "o", "p", "q", "r", "s", "t", "u", "v", "w", "x", "y", "z">>

is_ascii_digit(b) == \E k \in 1..Len(DigitChars) : DigitChars[k] = b
is_ascii_uppercase(b) == \E k \in 1..Len(UpperChars) : UpperChars[k] = b
is_ascii_lowercase(b) == \E k \in 1..Len(LowerChars) : LowerChars[k] = b
is_ascii_alphabetic(b) == is_ascii_uppercase(b) \/ is_ascii_lowercase(b)

\* U+00E9 (e with acute accent), the non-ASCII character of the model: the
\* lead byte 0xC3 followed by the continuation byte 0xA9.
EAcute == <<"C3", "A9">>
LeadBytes == {"C3"}
ContinuationBytes == {"A9"}

\* str::is_char_boundary: offset 0, the length, or the first byte of a char.
is_char_boundary(s, k) ==
    \/ k = 0
    \/ k = Len(s)
    \/ (0 < k /\ k < Len(s) /\ s[k + 1] \notin ContinuationBytes)

\* Results of the operations: Option values, and Panic for an abort.
None == [tag |-> "None"]
Some(v) == [tag |-> "Some", val |-> v]
Panic == [tag |-> "Panic"]

\* &s[a..b] with byte offsets: the slice, or a panic when an offset is out
\* of range or inside a multi-byte character.
Slice(s, a, b) ==
    IF a <= b /\ b <= Len(s) /\ is_char_boundary(s, a) /\ is_char_boundary(s, b)
    THEN Some(SubSeq(s, a + 1, b))
    ELSE Panic

starts_with(s, p) == Len(s) >= Len(p) /\ SubSeq(s, 1, Len(p)) = p
ends_with(s, p) == Len(s) >= Len(p) /\ SubSeq(s, Len(s) - Len(p) + 1, Len(s)) = p

\* str::strip_suffix
strip_suffix(s, p) ==
    IF ends_with(s, p) THEN Some(SubSeq(s, 1, Len(s) - Len(p))) ELSE None

\* str::find(char) for an ASCII char: the byte offset of its first occurrence.
find(s, c) ==
    IF \E k \in 1..Len(s) : s[k] = c
    THEN Some((CHOOSE k \in 1..Len(s) : s[k] = c /\ \A j \in 1..(k - 1) : s[j] # c) - 1)
    ELSE None

or_else(a, b) == IF a.tag = "Some" THEN a ELSE b

all_ascii_digit(s) == \A k \in 1..Len(s) : is_ascii_digit(s[k])
all_ascii_uppercase(s) == \A k \in 1..Len(s) : is_ascii_uppercase(s[k])
all_ascii_alphabetic(s) == \A k \in 1..Len(s) : is_ascii_alphabetic(s[k])
any_ascii_digit(s) == \E k \in 1..Len(s) : is_ascii_digit(s[k])

DigitVal(b) == (CHOOSE k \in 1..Len(DigitChars) : DigitChars[k] = b) - 1

RECURSIVE Number(_)
Number(ds) ==
    IF ds = <<>> THEN 0 ELSE 10 * Number(SubSeq(ds, 1, Len(ds) - 1)) + DigitVal(ds[Len(ds)])

U16Max == 65535

\* A value within u16, else the overflow error of parse.
in_u16(n) == IF n <= U16Max THEN Some(n) ELSE None

\* The digits of parse::<u16> after the optional sign.
u16_digits(ds) == IF Len(ds) > 0 /\ all_ascii_digit(ds) THEN in_u16(Number(ds)) ELSE None

\* str::parse::<u16>: an optional '+' sign, then one or more decimal digits,
\* the value within u16.
parse_u16(s) == u16_digits(IF Len(s) > 0 /\ s[1] = "+" THEN Tail(s) ELSE s)

\* str::parse::<f64> on the strings the parser gives it, which is_coordinate
\* has checked to be non-empty runs of decimal digits: the integer they denote.
parse_f64(s) ==
    IF Len(s) > 0 /\ all_ascii_digit(s) THEN Some(Number(s)) ELSE None

\* ------------------------------------------------------------------------
\* Lexeme parsers
\* ------------------------------------------------------------------------

\* A Speed or an Altitude value is [unit, v]: Speed::Knots(n), Speed::Mach kept
\* as its hundredths (Mach(n / 100.0)), Speed::KilometersPerHour(n);
\* Altitude::FlightLevel(n), MetricLevel(n), Altitude(n), MetricAltitude(n), Vfr.
AltitudeVfr == [unit |-> "Vfr", v |-> 0]

\* Option::map of a variant constructor on the result of parse::<u16>.
map_unit(r, unit) == IF r.tag = "Some" THEN Some([unit |-> unit, v |-> r.val]) ELSE None

\* The match of parse_speed on the first char and the rest of the string.
speed_match(speed_type, value_str) ==
    IF value_str.tag = "Panic" THEN Panic
    ELSE IF speed_type = "N" /\ Len(value_str.val) = 4
         THEN map_unit(parse_u16(value_str.val), "Knots")
    ELSE IF speed_type = "M" /\ Len(value_str.val) = 3
         THEN map_unit(parse_u16(value_str.val), "Mach")
    ELSE IF speed_type = "K" /\ Len(value_str.val) = 4
         THEN map_unit(parse_u16(value_str.val), "KilometersPerHour")
    ELSE None

parse_speed(s) ==
    IF Len(s) < 4 THEN None ELSE speed_match(s[1], Slice(s, 1, Len(s)))

\* The match of parse_altitude on the first char and the rest of the string.
altitude_match(alt_type, value_str) ==
    IF value_str.tag = "Panic" THEN Panic
    ELSE IF alt_type = "F" /\ Len(value_str.val) = 3
         THEN map_unit(parse_u16(value_str.val), "FlightLevel")
    ELSE IF alt_type = "S" /\ Len(value_str.val) = 4
         THEN map_unit(parse_u16(value_str.val), "MetricLevel")
    ELSE IF alt_type = "A" /\ Len(value_str.val) = 4
         THEN map_unit(parse_u16(value_str.val), "Altitude")
    ELSE IF alt_type = "M" /\ Len(value_str.val) = 4
         THEN map_unit(parse_u16(value_str.val), "MetricAltitude")
    ELSE None

parse_altitude(s) ==
    IF s = Bytes("VFR") THEN Some(AltitudeVfr)
    ELSE IF Len(s) < 4 THEN None
    ELSE altitude_match(s[1], Slice(s, 1, Len(s)))

\* The PLUS suffix test of parse_modifier: (base_token, cruise_climb).
plus_split(token, stripped) ==
    IF stripped.tag = "Some"
    THEN [base_token |-> stripped.val, cruise_climb |-> TRUE]
    ELSE [base_token |-> token, cruise_climb |-> FALSE]

split_plus(token) == plus_split(token, strip_suffix(token, Bytes("PLUS")))

\* The length of the speed part: 4 for Mach (M + 3 digits), else 5.
speed_len(base_token) == IF starts_with(base_token, <<"M">>) THEN 4 ELSE 5

\* The altitude after a speed: the remaining characters, 3 or more of them.
remaining_altitude(remaining) ==
    IF remaining.tag = "Panic" THEN Panic
    ELSE IF Len(remaining.val) >= 3 THEN parse_altitude(remaining.val)
    ELSE None

\* The altitude of parse_modifier, given the speed it parsed.
modifier_altitude(base_token, speed, sl) ==
    IF speed.tag = "Some" /\ Len(base_token) > sl
    THEN remaining_altitude(Slice(base_token, sl, Len(base_token)))
    ELSE IF speed.tag = "None" /\ Len(base_token) >= 3
    THEN parse_altitude(base_token)
    ELSE None

\* A faulty variant of make_modifier that also accepts a speed without an
\* altitude; C8 must tell it from make_modifier.
make_modifier_speed_only(speed, altitude, cruise_climb) ==
    IF altitude.tag = "Panic" THEN Panic
    ELSE IF altitude.tag = "Some" \/ speed.tag = "Some"
    THEN Some([speed |-> speed, altitude |-> altitude, cruise_climb |-> cruise_climb])
    ELSE None

\* Only a token with an altitude is a modifier.
make_modifier(speed, altitude, cruise_climb) ==
    IF altitude.tag = "Panic" THEN Panic
    ELSE IF altitude.tag = "Some"
    THEN Some([speed |-> speed, altitude |-> altitude, cruise_climb |-> cruise_climb])
    ELSE None

\* parse_modifier once the speed is parsed.
modifier_with_speed(base_token, speed, cruise_climb) ==
    IF speed.tag = "Panic" THEN Panic
    ELSE make_modifier(speed,
                       modifier_altitude(base_token, speed, speed_len(base_token)),
                       cruise_climb)

\* parse_modifier on the speed part &base_token[..speed_len].
modifier_with_head(base_token, head, cruise_climb) ==
    IF head.tag = "Panic" THEN Panic
    ELSE modifier_with_speed(base_token, parse_speed(head.val), cruise_climb)

\* parse_modifier after the PLUS suffix is split off.
modifier_of_base(base_token, cruise_climb) ==
    IF Len(base_token) < 4 THEN None
    ELSE IF Len(base_token) < speed_len(base_token) THEN None
    ELSE modifier_with_head(base_token,
                            Slice(base_token, 0, speed_len(base_token)),
                            cruise_climb)

modifier_of_split(sp) == modifier_of_base(sp.base_token, sp.cruise_climb)

parse_modifier(token) ==
    IF Len(token) < 4 THEN None ELSE modifier_of_split(split_plus(token))

\* ------------------------------------------------------------------------
\* Scalar classifiers
\* ------------------------------------------------------------------------

\* The offsets (from 1) at which the chars of s start.
char_starts(s) == {j \in 1..Len(s) : s[j] \notin ContinuationBytes}

\* The first byte of the k-th char (from 0) of a string with these starts.
nth_of(s, starts, k) ==
    IF k < Cardinality(starts)
    THEN Some(s[CHOOSE j \in starts : Cardinality({x \in starts : x < j}) = k])
    ELSE None

\* str::chars().nth(k)
chars_nth(s, k) == nth_of(s, char_starts(s), k)

\* token.chars().nth(3).unwrap() is an uppercase letter
nat_letter(c) == IF c.tag = "None" THEN Panic ELSE Some(is_ascii_uppercase(c.val))

\* The two unwraps of the 5-byte form: an uppercase letter and a digit.
nat_letter_digit(c, d) ==
    IF c.tag = "None" \/ d.tag = "None" THEN Panic
    ELSE Some(is_ascii_uppercase(c.val) /\ is_ascii_digit(d.val))

\* NAT[A-Z] or NAT[A-Z][0-9].  The unwrap of a missing char aborts.
is_nat(token) ==
    IF Len(token) = 4 /\ starts_with(token, Bytes("NAT"))
    THEN nat_letter(chars_nth(token, 3))
    ELSE IF Len(token) = 5 /\ starts_with(token, Bytes("NAT"))
    THEN nat_letter_digit(chars_nth(token, 3), chars_nth(token, 4))
    ELSE Some(FALSE)

pts_char(c) ==
    IF c.tag = "None" THEN Panic
    ELSE Some(is_ascii_digit(c.val) \/ is_ascii_uppercase(c.val))

\* PTS[0-9] or PTS[A-Z]
is_pts(token) ==
    IF Len(token) = 4 /\ starts_with(token, Bytes("PTS"))
    THEN pts_char(chars_nth(token, 3))
    ELSE Some(FALSE)

valid_prefixes ==
    { Bytes("UN"), Bytes("UM"), Bytes("UL"), Bytes("UT"), Bytes("UZ"), Bytes("UY"),
      Bytes("UP"), Bytes("UA"), Bytes("UB"), Bytes("UG"), Bytes("UH"), Bytes("UJ"),
      Bytes("UQ"), Bytes("UR"), Bytes("UV"), Bytes("UW"), Bytes("L"), Bytes("A"),
      Bytes("B"), Bytes("G"), Bytes("H"), Bytes("J"), Bytes("Q"), Bytes("R"),
      Bytes("T"), Bytes("V"), Bytes("W"), Bytes("Y"), Bytes("Z"), Bytes("M"),
      Bytes("N"), Bytes("P") }

\* char::is_alphabetic of the first char: an ASCII letter, or U+00E9.
first_is_alphabetic(token) == is_ascii_alphabetic(token[1]) \/ token[1] \in LeadBytes

\* is_airway once is_nat and is_pts have answered.
airway_shape(token, nat, pts) ==
    IF nat.tag = "Panic" THEN Panic
    ELSE IF nat.val THEN Some(FALSE)
    ELSE IF pts.tag = "Panic" THEN Panic
    ELSE IF pts.val THEN Some(FALSE)
    ELSE IF ~first_is_alphabetic(token) THEN Some(FALSE)
    ELSE IF ~any_ascii_digit(token) THEN Some(FALSE)
    ELSE Some(\E p \in valid_prefixes : starts_with(token, p))

is_airway(token) ==
    IF Len(token) < 2 \/ Len(token) > 7 THEN Some(FALSE)
    ELSE airway_shape(token, is_nat(token), is_pts(token))

\* bytes[a..b] of is_procedure are all ASCII uppercase (offsets from 0).
upper_range(token, a, b) == \A k \in (a + 1)..b : is_ascii_uppercase(token[k])

\* bytes[k] of is_procedure (offset from 0).
byte_at(token, k) == token[k + 1]

\* The four shapes of is_procedure on a token of n bytes.
procedure_shape(token, n) ==
    \* [A-Z]{3}[0-9]{1,2}[A-Z]
    \/ /\ n >= 5 /\ n <= 7
       /\ upper_range(token, 0, 3)
       /\ is_ascii_digit(byte_at(token, 3))
       /\ \/ (n = 5 /\ is_ascii_uppercase(byte_at(token, 4)))
          \/ (n = 6 /\ is_ascii_digit(byte_at(token, 4))
                    /\ is_ascii_uppercase(byte_at(token, 5)))
    \* [A-Z]{5}[0-9]{1,2}
    \/ /\ (n = 6 \/ n = 7)
       /\ upper_range(token, 0, 5)
       /\ is_ascii_digit(byte_at(token, 5))
       /\ (n = 6 \/ (n = 7 /\ is_ascii_digit(byte_at(token, 6))))
    \* [A-Z]{4,6}[0-9][A-Z], prefix_len = n - 2
    \/ /\ n >= 6 /\ n <= 8
       /\ n - 2 >= 4 /\ n - 2 <= 6
       /\ upper_range(token, 0, n - 2)
       /\ is_ascii_digit(byte_at(token, n - 2))
       /\ is_ascii_uppercase(byte_at(token, n - 1))
    \* [A-Z]{5}[0-9]{2}[A-Z]
    \/ /\ n = 8
       /\ upper_range(token, 0, 5)
       /\ is_ascii_digit(byte_at(token, 5))
       /\ is_ascii_digit(byte_at(token, 6))
       /\ is_ascii_uppercase(byte_at(token, 7))

is_procedure(token) == procedure_shape(token, Len(token))

\* A non-empty run of digits.
digits_part(part) == part # <<>> /\ all_ascii_digit(part)

\* The format check of is_coordinate on the positions of the indicators.
coordinate_shape(token, lat_pos, lon_pos) ==
    IF lat_pos.tag = "Some" /\ lon_pos.tag = "Some"
    THEN IF lat_pos.val >= lon_pos.val THEN FALSE
         ELSE IF ~digits_part(SubSeq(token, 1, lat_pos.val)) THEN FALSE
         ELSE IF ~digits_part(SubSeq(token, lat_pos.val + 2, lon_pos.val)) THEN FALSE
         ELSE lon_pos.val = Len(token) - 1
    ELSE IF lat_pos.tag = "Some"
    THEN digits_part(SubSeq(token, 1, lat_pos.val)) /\ lat_pos.val = Len(token) - 1
    ELSE IF lon_pos.tag = "Some"
    THEN digits_part(SubSeq(token, 1, lon_pos.val)) /\ lon_pos.val = Len(token) - 1
    ELSE FALSE

is_coordinate(token) ==
    IF Len(token) < 4 THEN FALSE
    ELSE coordinate_shape(token,
                          or_else(find(token, "N"), find(token, "S")),
                          or_else(find(token, "E"), find(token, "W")))

\* ------------------------------------------------------------------------
\* Points
\* ------------------------------------------------------------------------

\* Point values.  A Coordinate keeps (lat, lon) in arc-minutes, the exact
\* value of the degrees (deg + min / 60.0) * sign times 60.
Waypoint(name) == [kind |-> "Waypoint", name |-> name]
Aerodrome(name) == [kind |-> "Aerodrome", name |-> name]
Coordinate(coord) == [kind |-> "Coordinate", lat |-> coord[1], lon |-> coord[2]]
BearingDistance(point, bearing, distance) ==
    [kind |-> "BearingDistance", point |-> point, bearing |-> bearing, distance |-> distance]

\* A field of degrees only.
degrees_field(deg, sign) ==
    IF deg.tag = "None" THEN None ELSE Some(deg.val * 60 * sign)

\* A field of degrees and minutes, once both are parsed.
minutes_value(deg, min, sign) ==
    IF deg.tag = "None" \/ min.tag = "None" THEN None
    ELSE Some((deg.val * 60 + min.val) * sign)

\* A field of degrees and minutes, from its two slices.
minutes_field(d, m, sign) ==
    IF d.tag = "Panic" \/ m.tag = "Panic" THEN Panic
    ELSE minutes_value(parse_f64(d.val), parse_f64(m.val), sign)

\* One field of parse_coordinate: `short` digits of degrees, or `long` digits
\* of degrees and minutes; any other width is not a coordinate.
coordinate_field(val, sign, short, long) ==
    IF Len(val) = short THEN degrees_field(parse_f64(val), sign)
    ELSE IF Len(val) = long
    THEN minutes_field(Slice(val, 0, short), Slice(val, short, long), sign)
    ELSE None

first_some(a, b) == IF a.tag = "Some" THEN a.val ELSE b.val
sign_of(a) == IF a.tag = "Some" THEN 1 ELSE -1

\* The pair (lat, lon) once both fields are computed.
coordinate_pair(lat, lon) ==
    IF lon.tag # "Some" THEN lon ELSE Some(<<lat.val, lon.val>>)

\* The longitude field &token[lat_end..idx].
longitude_field(lon_val, sign) ==
    IF lon_val.tag = "Panic" THEN Panic
    ELSE coordinate_field(lon_val.val, sign, 3, 5)

\* parse_coordinate after the latitude.
coordinate_with_lat(token, lat, lat_end, e_idx, w_idx) ==
    IF lat.tag # "Some" THEN lat
    ELSE IF e_idx.tag = "None" /\ w_idx.tag = "None" THEN None
    ELSE coordinate_pair(lat,
                         longitude_field(Slice(token, lat_end, first_some(e_idx, w_idx)),
                                         sign_of(e_idx)))

\* parse_coordinate on the positions of N, S, E and W.
coordinate_at(token, n_idx, s_idx, e_idx, w_idx) ==
    IF n_idx.tag = "None" /\ s_idx.tag = "None" THEN None
    ELSE coordinate_with_lat(token,
                             coordinate_field(SubSeq(token, 1, first_some(n_idx, s_idx)),
                                              sign_of(n_idx), 2, 4),
                             first_some(n_idx, s_idx) + 1,
                             e_idx, w_idx)

parse_coordinate(token) ==
    coordinate_at(token, find(token, "N"), find(token, "S"),
                  find(token, "E"), find(token, "W"))

\* A faulty variant of bearing_distance_ok that bounds the bearing by 999 as it
\* does the distance; C10 must tell it from bearing_distance_ok.
bearing_distance_ok_wide(bearing, distance) == bearing <= 999 /\ distance <= 999

\* The acceptance test of a bearing/distance pair.
bearing_distance_ok(bearing, distance) == bearing <= 360 /\ distance <= 999

\* Both numbers parsed and accepted.
accepted(bearing, distance) ==
    /\ bearing.tag = "Some"
    /\ distance.tag = "Some"
    /\ bearing_distance_ok(bearing.val, distance.val)

\* The bearing/distance point around a coordinate.
coordinate_bearing(coord, bearing, distance) ==
    IF coord.tag = "Panic" THEN Panic
    ELSE IF coord.tag = "Some" /\ accepted(bearing, distance)
    THEN Some(BearingDistance(Coordinate(coord.val), bearing.val, distance.val))
    ELSE None

\* The bearing/distance point around a waypoint, for a name that is no coordinate.
waypoint_bearing(point_name, bearing, distance) ==
    IF point_name # <<>> /\ all_ascii_alphabetic(point_name) /\ accepted(bearing, distance)
    THEN Some(BearingDistance(Waypoint(point_name), bearing.val, distance.val))
    ELSE None

\* The bearing/distance rule of parse_point, for a token whose last 6 bytes
\* are digits: the point it returns, or None to fall through.
bearing_distance(point_name, bearing, distance) ==
    IF is_coordinate(point_name)
    THEN coordinate_bearing(parse_coordinate(point_name), bearing, distance)
    ELSE waypoint_bearing(point_name, bearing, distance)

\* The last two rules of parse_point: a 4-letter aerodrome, else a waypoint.
aerodrome_or_waypoint(token) ==
    IF Len(token) = 4 /\ all_ascii_uppercase(token) /\ ~any_ascii_digit(token)
    THEN Aerodrome(token)
    ELSE Waypoint(token)

\* The coordinate rule of parse_point, for a token is_coordinate accepts.
coordinate_point(coord) ==
    IF coord.tag = "Some" THEN Some(Coordinate(coord.val)) ELSE coord

\* A returned bearing/distance point, else the rules after it.
or_fall_through(bd, token) ==
    IF bd.tag = "None" THEN Some(aerodrome_or_waypoint(token)) ELSE bd

\* parse_point on a token longer than 6 bytes, with its last 6 bytes.
point_with_digits(token, potential_digits) ==
    IF potential_digits.tag = "Panic" THEN Panic
    ELSE IF all_ascii_digit(potential_digits.val)
    THEN or_fall_through(
             bearing_distance(SubSeq(token, 1, Len(token) - 6),
                              parse_u16(SubSeq(potential_digits.val, 1, 3)),
                              parse_u16(SubSeq(potential_digits.val, 4, 6))),
             token)
    ELSE Some(aerodrome_or_waypoint(token))

parse_point(token) ==
    IF token = <<>> THEN None
    ELSE IF is_coordinate(token) THEN coordinate_point(parse_coordinate(token))
    ELSE IF Len(token) > 6
    THEN point_with_digits(token, Slice(token, Len(token) - 6, Len(token)))
    ELSE Some(aerodrome_or_waypoint(token))

\* ------------------------------------------------------------------------
\* Tokenizer
\* ------------------------------------------------------------------------

is_whitespace(ch) == ch = " " \/ ch = "\n" \/ ch = "\t" \/ ch = "\r"
is_slash(ch) == ch = "/"

\* A faulty variant of push_slash that pushes nothing; C27 must tell it from
\* push_slash.
push_slash_none(toks, ch) == toks

\* tokens.push("/") for a slash delimiter
push_slash(toks, ch) == IF is_slash(ch) THEN Append(toks, <<"/">>) ELSE toks

\* The token that a delimiter at offset k ends, if one is open.
close_token(route, k, toks, current_token_start, in_token) ==
    IF in_token THEN Append(toks, SubSeq(route, current_token_start + 1, k)) ELSE toks

\* The loop of tokenize from byte offset k on; char_indices visits the
\* offsets at which a char starts.
RECURSIVE tokenize_from(_, _, _, _, _)
tokenize_from(route, k, toks, current_token_start, in_token) ==
    IF k >= Len(route)
    THEN close_token(route, Len(route), toks, current_token_start, in_token)
    ELSE IF route[k + 1] \in ContinuationBytes
    THEN tokenize_from(route, k + 1, toks, current_token_start, in_token)
    ELSE IF is_whitespace(route[k + 1]) \/ is_slash(route[k + 1])
    THEN tokenize_from(route, k + 1,
                       push_slash(close_token(route, k, toks, current_token_start, in_token),
                                  route[k + 1]),
                       current_token_start, FALSE)
    ELSE IF ~in_token
    THEN tokenize_from(route, k + 1, toks, k, TRUE)
    ELSE tokenize_from(route, k + 1, toks, current_token_start, in_token)

tokenize(route) == tokenize_from(route, 0, <<>>, 0, FALSE)

\* ------------------------------------------------------------------------
\* Route elements
\* ------------------------------------------------------------------------

PointElement(point) == [type |-> "Point", point |-> point]
ConnectorElement(kind, name) == [type |-> "Connector", kind |-> kind, name |-> name]
ModifierElement(modifier) == [type |-> "Modifier", modifier |-> modifier]

\* Connector::Direct, Vfr, Ifr, Oat, Gat, IfpStop, IfpStart carry no payload.
NoName == <<>>

\* A faulty variant of keyword_connector that knows STAY; C30 must tell it
\* from keyword_connector.
keyword_connector_with_stay(token) ==
    IF token = Bytes("DCT") THEN Some("Direct")
    ELSE IF token = Bytes("VFR") THEN Some("Vfr")
    ELSE IF token = Bytes("IFR") THEN Some("Ifr")
    ELSE IF token = Bytes("OAT") THEN Some("Oat")
    ELSE IF token = Bytes("GAT") THEN Some("Gat")
    ELSE IF token = Bytes("IFPSTOP") THEN Some("IfpStop")
    ELSE IF token = Bytes("IFPSTART") THEN Some("IfpStart")
    ELSE IF token = Bytes("STAY") THEN Some("Stay")
    ELSE None

\* The connector of a fixed keyword, if the token is one.
keyword_connector(token) ==
    IF token = Bytes("DCT") THEN Some("Direct")
    ELSE IF token = Bytes("VFR") THEN Some("Vfr")
    ELSE IF token = Bytes("IFR") THEN Some("Ifr")
    ELSE IF token = Bytes("OAT") THEN Some("Oat")
    ELSE IF token = Bytes("GAT") THEN Some("Gat")
    ELSE IF token = Bytes("IFPSTOP") THEN Some("IfpStop")
    ELSE IF token = Bytes("IFPSTART") THEN Some("IfpStart")
    ELSE None

\* matches!(elements.last(), Some(Connector(Direct))) on a non-empty vector.
last_is_direct(elems) ==
    /\ elems # <<>>
    /\ elems[Len(elems)].type = "Connector"
    /\ elems[Len(elems)].kind = "Direct"

\* Faulty variants of is_last_token: i == tokens.len(), which no token of the
\* loop satisfies (C4 must tell it from is_last_token), and i <= tokens.len() - 1,
\* which every token satisfies (C5 must tell it).
is_last_token_past_end(k, toks) == k = Len(toks)
is_last_token_any(k, toks) == k <= Len(toks) - 1

\* i == tokens.len() - 1
is_last_token(k, toks) == k = Len(toks) - 1

\* ------------------------------------------------------------------------
\* The if / else-if chain of parse: the branch a token takes and the value
\* its `if let` binds, or the branch "panic" when a call made on the way
\* aborts.
\* ------------------------------------------------------------------------

Taken(b, value) == [branch |-> b, bound |-> value]

\* else if let Some(point) = Self::parse_point(token)
chain_point(point) ==
    IF point.tag = "Panic" THEN Taken("panic", None)
    ELSE IF point.tag = "Some" THEN Taken("point", point)
    ELSE Taken("dropped", None)

\* else if Self::is_airway(token)
chain_airway(token, airway) ==
    IF airway.tag = "Panic" THEN Taken("panic", None)
    ELSE IF airway.val THEN Taken("airway", None)
    ELSE chain_point(parse_point(token))

\* else if Self::is_pts(token)
chain_pts(token, pts) ==
    IF pts.tag = "Panic" THEN Taken("panic", None)
    ELSE IF pts.val THEN Taken("pts", None)
    ELSE chain_airway(token, is_airway(token))

\* A faulty variant of chain_nat without the Nat branch; C11 must tell it from
\* chain_nat.
chain_nat_no_track(token, nat) ==
    IF nat.tag = "Panic" THEN Taken("panic", None)
    ELSE chain_pts(token, is_pts(token))

\* else if Self::is_nat(token)
chain_nat(token, nat) ==
    IF nat.tag = "Panic" THEN Taken("panic", None)
    ELSE IF nat.val THEN Taken("nat", None)
    ELSE chain_pts(token, is_pts(token))

\* The body of the branch after DCT: if let Some(point) = Self::parse_point(token)
chain_after_direct(point) ==
    IF point.tag = "Panic" THEN Taken("panic", None) ELSE Taken("after_direct", point)

\* A faulty variant of chain_procedure without the branch after DCT; C6 must
\* tell it from chain_procedure.
chain_procedure_no_direct(token, k, toks, fpp, elems) ==
    IF ~fpp /\ is_procedure(token) THEN Taken("sid", None)
    ELSE IF is_procedure(token) /\ is_last_token(k, toks) THEN Taken("star", None)
    ELSE chain_nat(token, is_nat(token))

\* The branches after the keywords.
chain_procedure(token, k, toks, fpp, elems) ==
    IF ~fpp /\ is_procedure(token) THEN Taken("sid", None)
    ELSE IF is_procedure(token) /\ is_last_token(k, toks) THEN Taken("star", None)
    ELSE IF last_is_direct(elems) THEN chain_after_direct(parse_point(token))
    ELSE chain_nat(token, is_nat(token))

\* The keyword branches.
chain_keyword(token, k, toks, fpp, elems) ==
    IF keyword_connector(token).tag = "Some" THEN Taken("keyword", None)
    ELSE IF token = Bytes("SID") THEN Taken("sid_literal", None)
    ELSE IF token = Bytes("STAR") THEN Taken("star_literal", None)
    ELSE chain_procedure(token, k, toks, fpp, elems)

\* if let Some(modifier) = Self::parse_modifier(token)
chain_modifier(token, k, toks, fpp, elems, modifier) ==
    IF modifier.tag = "Panic" THEN Taken("panic", None)
    ELSE IF modifier.tag = "Some" THEN Taken("modifier", modifier)
    ELSE chain_keyword(token, k, toks, fpp, elems)

chain(token, k, toks, fpp, elems) ==
    IF token = Bytes("T") THEN Taken("truncate", None)
    ELSE IF token = Bytes("/") THEN Taken("slash", None)
    ELSE chain_modifier(token, k, toks, fpp, elems, parse_modifier(token))

\* ------------------------------------------------------------------------
\* Field15Parser::parse as a state machine
\* ------------------------------------------------------------------------

VARIABLES
    route,                \* the argument of parse, a UTF-8 byte string
    tokens,               \* Self::tokenize(route)
    i,                    \* the index of the loop, from 0
    first_point_parsed,
    elements,             \* the vector being built
    bound,                \* the value bound by the `if let` of the branch taken
    emitted_at,           \* history: for each element, the index i of its token
    pc,                   \* "start", "loop", a branch of the chain, "done"
                          \* (parse has returned) or "panicked"; "idle" when
                          \* no route is parsed
    pool,                 \* the interval collections at hand, in order
    inputs,               \* history: the collections given at the start
    ops,                  \* history: the operators applied so far
    last                  \* the last operation: operator, operands, result

\* The variables of Field15Parser::parse and those of the interval operators.
pvars == <<route, tokens, i, first_point_parsed, elements, bound, emitted_at, pc>>
ivars == <<pool, inputs, ops, last>>
vars == <<pvars, ivars>>

\* No interval operation is under way.
NoOperation == [op |-> "none", left |-> <<>>, right |-> <<>>, result |-> None]
IntervalsIdle ==
    /\ pool = <<>>
    /\ inputs = <<>>
    /\ ops = <<>>
    /\ last = NoOperation

\* The words the routes of Spec are made of.
Words ==
    { Bytes("T"), Bytes("/"), Bytes("N0450F100"), Bytes("DCT"), Bytes("VFR"),
      Bytes("SID"), Bytes("STAR"), Bytes("LACOU5A"), Bytes("DIK5A"),
      Bytes("POINT"), Bytes("UM184"), Bytes("NATA"), Bytes("PTS1"),
      Bytes("5430N"), EAcute \o EAcute \o EAcute }

\* The longest route of Spec, in words.
MaxWords == 3

\* The words of a route, separated by single spaces.
RECURSIVE join(_)
join(ws) ==
    IF ws = <<>> THEN <<>>
    ELSE IF Len(ws) = 1 THEN ws[1]
    ELSE ws[1] \o <<" ">> \o join(Tail(ws))

WordSeqs(n) == UNION {[1..k -> Words] : k \in 0..n}

Routes == {join(ws) : ws \in WordSeqs(MaxWords)}

\* parse(route) is called.
InitWith(routes) ==
    /\ route \in routes
    /\ tokens = <<>>
    /\ i = 0
    /\ first_point_parsed = FALSE
    /\ elements = <<>>
    /\ bound = None
    /\ emitted_at = <<>>
    /\ pc = "start"
    /\ IntervalsIdle

Init == InitWith(Routes)

Tokenize ==
    /\ pc = "start"
    /\ tokens' = tokenize(route)
    /\ pc' = "loop"
    /\ UNCHANGED <<route, i, first_point_parsed, elements, bound, emitted_at>>
    /\ UNCHANGED ivars

\* The branch taken is entered, with the value it binds.
Enter(taken) ==
    /\ pc' = taken.branch
    /\ bound' = taken.bound

\* while i < tokens.len(): the conditions of the chain are evaluated on
\* tokens[i] in order, up to the first that holds.
Classify ==
    /\ pc = "loop"
    /\ i < Len(tokens)
    /\ Enter(chain(tokens[i + 1], i, tokens, first_point_parsed, elements))
    /\ UNCHANGED <<route, tokens, i, first_point_parsed, elements, emitted_at>>
    /\ UNCHANGED ivars

\* elements.push(e); first_point_parsed as given; i += 1
Push(e, fpp) ==
    /\ elements' = Append(elements, e)
    /\ emitted_at' = Append(emitted_at, i)
    /\ first_point_parsed' = fpp
    /\ i' = i + 1
    /\ pc' = "loop"
    /\ bound' = None
    /\ UNCHANGED <<route, tokens>>
    /\ UNCHANGED ivars

\* A faulty variant of Skip that leaves i as it is; C12 must tell it from Skip.
Skip_stay ==
    /\ pc' = "loop"
    /\ bound' = None
    /\ UNCHANGED <<route, tokens, i, first_point_parsed, elements, emitted_at>>
    /\ UNCHANGED ivars

\* No element for the token; i += 1
Skip ==
    /\ i' = i + 1
    /\ pc' = "loop"
    /\ bound' = None
    /\ UNCHANGED <<route, tokens, first_point_parsed, elements, emitted_at>>
    /\ UNCHANGED ivars

\* parse is over: it has returned elements, or it has aborted.
Stop(how) ==
    /\ pc' = how
    /\ bound' = None
    /\ UNCHANGED <<route, tokens, i, first_point_parsed, elements, emitted_at>>
    /\ UNCHANGED ivars

\* A faulty variant of Truncate that skips "T" as it skips "/"; C2 must tell
\* it from Truncate.
Truncate_continue == pc = "truncate" /\ Skip

\* "T": break
Truncate == pc = "truncate" /\ Stop("done")

\* "/": i += 1; continue
Slash == pc = "slash" /\ Skip

\* A faulty variant of EmitModifier that sets first_point_parsed; C26 must
\* tell it from EmitModifier.
EmitModifier_sets_flag ==
    /\ pc = "modifier"
    /\ Push(ModifierElement(bound.val), TRUE)

EmitModifier ==
    /\ pc = "modifier"
    /\ Push(ModifierElement(bound.val), first_point_parsed)

EmitKeyword ==
    /\ pc = "keyword"
    /\ Push(ConnectorElement(keyword_connector(tokens[i + 1]).val, NoName),
            first_point_parsed)

EmitSidLiteral ==
    /\ pc = "sid_literal"
    /\ Push(ConnectorElement("Sid", Bytes("SID")), TRUE)

\* A faulty variant of EmitStarLiteral that leaves first_point_parsed as it
\* is; C28 must tell it from EmitStarLiteral.
EmitStarLiteral_keep_flag ==
    /\ pc = "star_literal"
    /\ Push(ConnectorElement("Star", Bytes("STAR")), first_point_parsed)

EmitStarLiteral ==
    /\ pc = "star_literal"
    /\ Push(ConnectorElement("Star", Bytes("STAR")), TRUE)

EmitSid ==
    /\ pc = "sid"
    /\ Push(ConnectorElement("Sid", tokens[i + 1]), TRUE)

EmitStar ==
    /\ pc = "star"
    /\ Push(ConnectorElement("Star", tokens[i + 1]), TRUE)

\* After DCT the token is parsed as a point, or dropped when it is none.
AfterDirect ==
    /\ pc = "after_direct"
    /\ IF bound.tag = "Some" THEN Push(PointElement(bound.val), TRUE) ELSE Skip

EmitNat ==
    /\ pc = "nat"
    /\ Push(ConnectorElement("Nat", tokens[i + 1]), first_point_parsed)

EmitPts ==
    /\ pc = "pts"
    /\ Push(ConnectorElement("Pts", tokens[i + 1]), first_point_parsed)

\* An airway, or a STAR when it is the last token and shaped as a procedure.
EmitAirway ==
    /\ pc = "airway"
    /\ IF is_last_token(i, tokens) /\ is_procedure(tokens[i + 1])
       THEN Push(ConnectorElement("Star", tokens[i + 1]), TRUE)
       ELSE Push(ConnectorElement("Airway", tokens[i + 1]), first_point_parsed)

\* A faulty variant of EmitPoint that leaves first_point_parsed as it is; C3
\* must tell it from EmitPoint.
EmitPoint_keep_flag ==
    /\ pc = "point"
    /\ Push(PointElement(bound.val), first_point_parsed)

EmitPoint ==
    /\ pc = "point"
    /\ Push(PointElement(bound.val), TRUE)

\* parse_point returned None: no element.
DropToken == pc = "dropped" /\ Skip

\* A slice off a char boundary or an unwrap of None aborts parse.
Abort == pc = "panic" /\ Stop("panicked")

\* The loop ends and parse returns elements.
Return ==
    /\ pc = "loop"
    /\ i >= Len(tokens)
    /\ Stop("done")

Next ==
    \/ Tokenize
    \/ Classify
    \/ Truncate
    \/ Slash
    \/ EmitModifier
    \/ EmitKeyword
    \/ EmitSidLiteral
    \/ EmitStarLiteral
    \/ EmitSid
    \/ EmitStar
    \/ AfterDirect
    \/ EmitNat
    \/ EmitPts
    \/ EmitAirway
    \/ EmitPoint
    \/ DropToken
    \/ Abort
    \/ Return

Spec == Init /\ [][Next]_vars

\* ------------------------------------------------------------------------
\* Routes of one generated token after a few lead words: the lexical cases
\* ------------------------------------------------------------------------

\* speed part, altitude part and PLUS suffix of a modifier-like token
SpeedParts ==
    { <<>>, Bytes("N0450"), Bytes("M079"), Bytes("K0893"), Bytes("N045"), Bytes("N+450") }
AltitudeParts ==
    { <<>>, Bytes("F340"), Bytes("F34"), Bytes("S1130"), Bytes("A0450"), Bytes("M0825"),
      Bytes("VFR"), Bytes("F+40") }
SuffixParts == { <<>>, Bytes("PLUS") }

\* latitude part, longitude part and bearing/distance digits of a point-like token
LatitudeParts ==
    { <<>>, Bytes("54N"), Bytes("5430N"), Bytes("543N"), Bytes("02S"), Bytes("N") }
LongitudeParts ==
    { <<>>, Bytes("010E"), Bytes("01020W"), Bytes("10E"), Bytes("E") }
NameParts == { Bytes("POINT"), Bytes("LFPG"), Bytes("P1"), EAcute, Bytes("R") \o EAcute }
BearingParts ==
    { <<>>, Bytes("180060"), Bytes("360999"), Bytes("361000"), Bytes("999999") }

\* further tokens: keywords, tracks, procedures, non-ASCII
OtherTokens ==
    { Bytes("IFR"), Bytes("OAT"), Bytes("GAT"), Bytes("IFPSTOP"), Bytes("IFPSTART"),
      Bytes("STAY"), Bytes("NATB2"), Bytes("NAT1"), Bytes("NAT") \o EAcute,
      Bytes("PTSA"), Bytes("ROCKT2"), Bytes("ELCOB6B"), Bytes("KODAP12A"),
      Bytes("C"), Bytes("B9"), Bytes("lfpg"), Bytes("N045") \o EAcute }

LexTokens ==
    Words
    \cup OtherTokens
    \cup {sp \o al \o su : sp \in SpeedParts, al \in AltitudeParts, su \in SuffixParts}
    \cup {la \o lo \o bd : la \in LatitudeParts, lo \in LongitudeParts, bd \in BearingParts}
    \cup {na \o bd : na \in NameParts, bd \in BearingParts}

\* The words that may stand before the generated token.
LeadWords == { Bytes("DCT"), Bytes("POINT") }

\* The largest number of lead words of SpecLex.
MaxLead == 1

LeadSeqs(n) == UNION {[1..k -> LeadWords] : k \in 0..n}

LexRoutes == {join(ls \o <<t>>) : ls \in LeadSeqs(MaxLead), t \in LexTokens}

InitLex == InitWith(LexRoutes)

SpecLex == InitLex /\ [][Next]_vars

\* ------------------------------------------------------------------------
\* Interval and IntervalCollection (crates/thrust/src/intervals.rs).  An
\* IntervalCollection is the sequence elts of its intervals; the scalar type T
\* is the integers.
\* ------------------------------------------------------------------------

Interval(a, b) == [start |-> a, stop |-> b]

\* derive(PartialOrd, Ord): lexicographic on (start, stop).
interval_le(x, y) == x.start < y.start \/ (x.start = y.start /\ x.stop <= y.stop)

\* A faulty variant of min that returns its first argument; C16 must tell it
\* from min.
min_first(x, y) == x

\* std::cmp::min(&a, &b)
min(x, y) == IF interval_le(x, y) THEN x ELSE y

\* Iterator::min on a non-empty set of intervals, Iterator::max on a non-empty
\* set of scalars.
iter_min(S) == CHOOSE x \in S : \A y \in S : interval_le(x, y)
iter_max(S) == CHOOSE n \in S : \A m \in S : m <= n

\* self.elts.iter().chain(other.elts.iter()), as the set of its items.
chained(self, other) == {self[k] : k \in 1..Len(self)} \cup {other[k] : k \in 1..Len(other)}

\* The stops the three filters of the sweep keep, and the elements the last keeps.
reached(all, swiping_line, horizon) ==
    {e.stop : e \in {x \in all : swiping_line <= x.start /\ x.start <= horizon}}
crossing(all, horizon) ==
    {e.stop : e \in {x \in all : x.start <= horizon /\ horizon < x.stop}}
beyond(all, horizon) == {x \in all : x.start > horizon}

\* A faulty variant of extend without the inner loop; C15 must tell it from
\* extend.
extend_none(all, horizon) == horizon

\* The inner loop: the horizon moves to the furthest stop of the elements
\* that cross it, until none does.
RECURSIVE extend(_, _)
extend(all, horizon) ==
    IF crossing(all, horizon) = {} THEN horizon
    ELSE extend(all, iter_max(crossing(all, horizon)))

\* The outer loop of the sweep, from the element start, with elts pushed so far.
RECURSIVE sweep(_, _, _)
RECURSIVE sweep_next(_, _, _, _)
\* A faulty variant of sweep_next that looks for the next start beyond the
\* swiping line, not beyond the horizon; C13 must tell it from sweep_next.
sweep_next_from_line(all, swiping_line, horizon, elts) ==
    IF beyond(all, swiping_line) = {}
    THEN Some(Append(elts, Interval(swiping_line, horizon)))
    ELSE sweep(all, iter_min(beyond(all, swiping_line)),
               Append(elts, Interval(swiping_line, horizon)))

sweep_next(all, swiping_line, horizon, elts) ==
    IF beyond(all, horizon) = {}
    THEN Some(Append(elts, Interval(swiping_line, horizon)))
    ELSE sweep(all, iter_min(beyond(all, horizon)),
               Append(elts, Interval(swiping_line, horizon)))
sweep(all, start, elts) ==
    IF reached(all, start.start, start.stop) = {} THEN Panic
    ELSE sweep_next(all, start.start,
                    extend(all, iter_max(reached(all, start.start, start.stop))),
                    elts)

\* A faulty variant of add that chains the operands without merging them; C20
\* must tell it from add.
add_chained(self, other) ==
    IF self = <<>> \/ other = <<>> THEN Panic ELSE Some(self \o other)

\* impl Add for &IntervalCollection: self.elts[0] and other.elts[0] are indexed
\* first, which aborts on an empty vector.
add(self, other) ==
    IF self = <<>> \/ other = <<>> THEN Panic
    ELSE sweep(chained(self, other), min(self[1], other[1]), <<>>)

\* Interval::overlap
overlap(x, y) == x.start < y.stop /\ x.stop > y.start

\* A faulty variant of right_piece that starts at other.start; C21 must tell
\* it from right_piece.
right_piece_from_start(elt, other) ==
    IF other.stop < elt.stop THEN <<Interval(other.start, elt.stop)>> ELSE <<>>

\* The two pushes of the difference of an element and an interval it overlaps.
left_piece(elt, other) ==
    IF other.start > elt.start THEN <<Interval(elt.start, other.start)>> ELSE <<>>
right_piece(elt, other) ==
    IF other.stop < elt.stop THEN <<Interval(other.stop, elt.stop)>> ELSE <<>>

\* impl Sub for Interval, and the body of the loop of the collection's Sub.
sub_elt(elt, other) ==
    IF overlap(elt, other) THEN left_piece(elt, other) \o right_piece(elt, other)
    ELSE <<elt>>

\* impl Sub<Interval> for IntervalCollection
RECURSIVE sub_interval(_, _)
sub_interval(elts, other) ==
    IF elts = <<>> THEN <<>>
    ELSE sub_elt(Head(elts), other) \o sub_interval(Tail(elts), other)

\* impl Sub for IntervalCollection: res = res - elt for each elt of other.
RECURSIVE sub(_, _)
sub(self, other) ==
    IF other = <<>> THEN self ELSE sub(sub_interval(self, Head(other)), Tail(other))

\* impl BitAnd for &Interval
bitand(x, y) ==
    IF overlap(x, y)
    THEN Some(Interval(IF x.start > y.start THEN x.start ELSE y.start,
                       IF x.stop < y.stop THEN x.stop ELSE y.stop))
    ELSE None

\* Some(i) => elts.push(i); None => ()
pushed(r) == IF r.tag = "Some" THEN <<r.val>> ELSE <<>>

\* impl BitAnd<&IntervalCollection> for &Interval
RECURSIVE bitand_interval(_, _)
bitand_interval(x, other) ==
    IF other = <<>> THEN <<>>
    ELSE pushed(bitand(x, Head(other))) \o bitand_interval(x, Tail(other))

\* A faulty variant of bitand_collection whose outer loop is over self; C22
\* must tell it from bitand_collection.
RECURSIVE bitand_self_outer(_, _)
bitand_self_outer(self, other) ==
    IF self = <<>> THEN <<>>
    ELSE bitand_interval(Head(self), other) \o bitand_self_outer(Tail(self), other)

\* impl BitAnd for &IntervalCollection: for each interval of other,
\* self & interval, which is interval & self.
RECURSIVE bitand_collection(_, _)
bitand_collection(self, other) ==
    IF other = <<>> THEN <<>>
    ELSE bitand_interval(Head(other), self) \o bitand_collection(self, Tail(other))

\* A faulty variant of duration that counts both endpoints; C18 must tell it
\* from duration.
duration_inclusive(x) == x.stop - x.start + 1

\* Interval::duration and IntervalCollection::total_duration
duration(x) == x.stop - x.start
RECURSIVE total_duration(_)
total_duration(elts) ==
    IF elts = <<>> THEN 0 ELSE duration(Head(elts)) + total_duration(Tail(elts))

\* (a - b) + (a & b) + (b - a) on two intervals, the intersection added when
\* there is one.
with_common(left, common) ==
    IF common.tag = "Some" THEN add(left, <<common.val>>) ELSE Some(left)
then_add(left, right) == IF left.tag = "Some" THEN add(left.val, right) ELSE left
partition(a, b) == then_add(with_common(sub_elt(a, b), bitand(a, b)), sub_elt(b, a))

\* Interval::overlap and impl BitAnd for Interval of src/intervals.rs, the
\* implementation of the root crate.
src_overlap(x, y) == x.start <= y.stop /\ x.stop >= y.start
src_bitand(x, y) ==
    IF src_overlap(x, y)
    THEN Some(Interval(IF x.start > y.start THEN x.start ELSE y.start,
                       IF x.stop < y.stop THEN x.stop ELSE y.stop))
    ELSE None

\* ------------------------------------------------------------------------
\* The interval operators as a state machine: a sequence of collections, of
\* which two neighbours are combined at each step.
\* ------------------------------------------------------------------------

\* The largest scalar of an operand of SpecSweep and the most elements its two
\* operands hold together.
MaxPoint == 3
MaxElts == 3

\* The largest scalar of an interval of SpecAlgebra and the most intervals it
\* starts from.
MaxScalar == 2
MaxList == 3

\* Well-formed intervals over 0..n, and I1..I5 of the tests.
Intervals(n) == {Interval(a, b) : a \in 0..n, b \in 0..n} \ {x \in [start : 0..n, stop : 0..n] : x.start > x.stop}
TestIntervals == {Interval(k, k + 1) : k \in 0..4}

Lists(S, lo, hi) == UNION {[1..k -> S] : k \in lo..hi}

\* The elements of two non-empty operands, in any order: all of them in a
\* row, to be split in two.
SweepElts == Lists(Intervals(MaxPoint), 2, MaxElts) \cup Lists(TestIntervals, 4, 4)
Split(all, k) == <<SubSeq(all, 1, k), SubSeq(all, k + 1, Len(all))>>

\* Collections of one interval each.
Singles(S) == {<<x>> : x \in S}
AlgebraOperands ==
    Lists(Singles(Intervals(MaxScalar)), 1, MaxList)
    \cup Lists(Singles(TestIntervals), 1, MaxList)

\* No route is parsed.
ParserIdle ==
    /\ route = <<>>
    /\ tokens = <<>>
    /\ i = 0
    /\ first_point_parsed = FALSE
    /\ elements = <<>>
    /\ bound = None
    /\ emitted_at = <<>>
    /\ pc = "idle"

InitIntervals(operands) ==
    /\ inputs \in operands
    /\ pool = inputs
    /\ ops = <<>>
    /\ last = NoOperation
    /\ ParserIdle

InitSweep ==
    \E all \in SweepElts : \E k \in 1..(Len(all) - 1) : InitIntervals({Split(all, k)})
InitAlgebra == InitIntervals(AlgebraOperands)

\* An aborted operation ends the run.
Running == pc = "idle" /\ last.result.tag # "Panic"

\* pool[k] op pool[k + 1] takes the place of its operands, unless it aborts.
Apply(op, k, result) ==
    /\ last' = [op |-> op, left |-> pool[k], right |-> pool[k + 1], result |-> result]
    /\ ops' = Append(ops, op)
    /\ pool' = IF result.tag = "Some"
               THEN SubSeq(pool, 1, k - 1) \o <<result.val>> \o SubSeq(pool, k + 2, Len(pool))
               ELSE pool
    /\ UNCHANGED inputs
    /\ UNCHANGED pvars

\* left + right
Add ==
    /\ Running
    /\ \E k \in 1..(Len(pool) - 1) : Apply("add", k, add(pool[k], pool[k + 1]))

\* left - right
Sub ==
    /\ Running
    /\ \E k \in 1..(Len(pool) - 1) : Apply("sub", k, Some(sub(pool[k], pool[k + 1])))

\* &left & &right
BitAnd ==
    /\ Running
    /\ \E k \in 1..(Len(pool) - 1) :
           Apply("bitand", k, Some(bitand_collection(pool[k], pool[k + 1])))

\* Two single intervals are at hand and nothing was done to them.
TwoIntervals ==
    /\ Running
    /\ ops = <<>>
    /\ Len(pool) = 2
    /\ Len(pool[1]) = 1
    /\ Len(pool[2]) = 1

\* An operation on the two intervals themselves, with its own result type.
OnIntervals(op, result) ==
    /\ last' = [op |-> op, left |-> pool[1], right |-> pool[2], result |-> result]
    /\ ops' = <<op>>
    /\ pool' = <<>>
    /\ UNCHANGED inputs
    /\ UNCHANGED pvars

\* &a & &b on two intervals: Option<Interval>
IntervalBitAnd ==
    /\ TwoIntervals
    /\ OnIntervals("interval_bitand", bitand(pool[1][1], pool[2][1]))

\* a & b on two intervals of src/intervals.rs: Option<Interval>
SrcIntervalBitAnd ==
    /\ TwoIntervals
    /\ OnIntervals("src_bitand", src_bitand(pool[1][1], pool[2][1]))

\* (a - b) + (a & b) + (b - a)
Partition ==
    /\ TwoIntervals
    /\ OnIntervals("partition", partition(pool[1][1], pool[2][1]))

NextIntervals ==
    \/ Add
    \/ Sub
    \/ BitAnd
    \/ IntervalBitAnd
    \/ SrcIntervalBitAnd
    \/ Partition

SpecSweep == InitSweep /\ [][NextIntervals]_vars
SpecAlgebra == InitAlgebra /\ [][NextIntervals]_vars

\* ------------------------------------------------------------------------
\* Routes of a few characters, delimiters among them: the tokenizer
\* ------------------------------------------------------------------------

\* The sequences of a sequence, one after the other.
RECURSIVE Concat(_)
Concat(seqs) == IF seqs = <<>> THEN <<>> ELSE Head(seqs) \o Concat(Tail(seqs))

\* The characters of the routes of SpecTokenize, each as its bytes.
Chars ==
    { <<"A">>, <<"B">>, <<" ">>, <<"\t">>, <<"\n">>, <<"\r">>, <<"/">>, EAcute }

\* The longest route of SpecTokenize, in characters.
MaxChars == 4

CharRoutes == {Concat(cs) : cs \in Lists(Chars, 0, MaxChars)}

InitChars == InitWith(CharRoutes)

\* Self::tokenize(route) alone.
SpecTokenize == InitChars /\ [][Tokenize]_vars

\* ------------------------------------------------------------------------
\* Properties
\* ------------------------------------------------------------------------

IsConnector(e, kind) == e.type = "Connector" /\ e.kind = kind
IsPoint(e, kind) == e.type = "Point" /\ e.point.kind = kind

\* The token an element was produced from.
TokenOf(j) == tokens[emitted_at[j] + 1]

\* A Sid or Star element that carries a procedure designator, not the keyword.
IsNamedSid(e) == IsConnector(e, "Sid") /\ e.name # Bytes("SID")
IsNamedStar(e) == IsConnector(e, "Star") /\ e.name # Bytes("STAR")

\* C1: parse never aborts: for every input string, ASCII or not, it returns.
C1_NeverAborts == pc # "panicked"

\* C2: when the token "T" occurs in the input, no element of the output is
\* produced from the first "T" or from any token after it, and the pass never
\* moves beyond it.
C2_TruncateStops ==
    \A k \in 1..Len(tokens) :
        tokens[k] = Bytes("T") =>
            /\ i <= k - 1
            /\ \A j \in 1..Len(elements) : emitted_at[j] < k - 1

\* C2 witness: parse has returned at a "T" that stands after a DCT and before
\* further tokens.
C2_Witness ==
    /\ pc = "done"
    /\ last_is_direct(elements)
    /\ \E k \in 2..(Len(tokens) - 1) : tokens[k] = Bytes("T") /\ i = k - 1

\* C3 as stated: in an output that contains a Sid, no Airway connector and no
\* Waypoint point precedes the first Sid.
C3_SidBeforeAirwayAndWaypoint ==
    \A j \in 1..Len(elements) :
        (IsConnector(elements[j], "Sid")
            /\ \A h \in 1..(j - 1) : ~IsConnector(elements[h], "Sid"))
        => \A h \in 1..(j - 1) :
               /\ ~IsConnector(elements[h], "Airway")
               /\ ~IsPoint(elements[h], "Waypoint")

\* C3 amended: a Sid that carries a procedure designator is emitted before any
\* Point element (so before any Waypoint), and it is the first Sid.
C3_NamedSidBeforePoints ==
    \A j \in 1..Len(elements) :
        IsNamedSid(elements[j])
        => \A h \in 1..(j - 1) :
               /\ elements[h].type # "Point"
               /\ ~IsConnector(elements[h], "Sid")

\* C3 witness: a designator Sid emitted after an Airway.
C3_Witness ==
    \E j \in 2..Len(elements) :
        /\ IsNamedSid(elements[j])
        /\ IsConnector(elements[j - 1], "Airway")

\* The element, if any, produced from the token at 1-based position k.
EmittedFrom(k, e) ==
    \E j \in 1..Len(elements) : emitted_at[j] = k - 1 /\ elements[j] = e
EmittedAsSid(k) ==
    \E j \in 1..Len(elements) :
        emitted_at[j] = k - 1 /\ IsConnector(elements[j], "Sid")

\* The last token that satisfies is_procedure stands at position k.
IsLastProcedure(k) ==
    /\ is_procedure(tokens[k])
    /\ \A h \in (k + 1)..Len(tokens) : ~is_procedure(tokens[h])

\* C4 as stated: once parse has returned after reaching the end of the tokens,
\* the last token that satisfies is_procedure, if it was not emitted as Sid,
\* was emitted as Star with the token as payload, wherever it stands.
C4_LastProcedureIsStar ==
    (pc = "done" /\ i = Len(tokens)) =>
        \A k \in 1..Len(tokens) :
            (IsLastProcedure(k) /\ ~EmittedAsSid(k))
            => EmittedFrom(k, ConnectorElement("Star", tokens[k]))

\* C4 amended: once parse has returned after reaching the end of the tokens,
\* a final token that satisfies is_procedure and was not emitted as Sid was
\* emitted as Star with the token as payload; a token that satisfies
\* is_procedure in any other position was not emitted as Star.
C4_FinalProcedureIsStar ==
    /\ (pc = "done" /\ i = Len(tokens) /\ tokens # <<>>
          /\ is_procedure(tokens[Len(tokens)]) /\ ~EmittedAsSid(Len(tokens)))
       => EmittedFrom(Len(tokens), ConnectorElement("Star", tokens[Len(tokens)]))
    /\ \A k \in 1..(Len(tokens) - 1) :
           is_procedure(tokens[k])
           => ~EmittedFrom(k, ConnectorElement("Star", tokens[k]))

\* C4 witness: parse has returned a Star for a final procedure token that
\* follows a point.
C4_Witness ==
    /\ pc = "done"
    /\ Len(elements) >= 2
    /\ elements[Len(elements) - 1].type = "Point"
    /\ EmittedFrom(Len(tokens), ConnectorElement("Star", tokens[Len(tokens)]))
    /\ is_procedure(tokens[Len(tokens)])

\* C5: a Star element whose payload is not the literal "STAR" is produced from
\* the final token of the input, which satisfies is_procedure and is its
\* payload, and it is the last element of the output.
C5_NamedStarIsFinal ==
    \A j \in 1..Len(elements) :
        IsNamedStar(elements[j])
        => /\ emitted_at[j] = Len(tokens) - 1
           /\ j = Len(elements)
           /\ elements[j].name = TokenOf(j)
           /\ is_procedure(TokenOf(j))

\* C5 witness: a designator Star at the end of an output in which an earlier
\* procedure-shaped token gave another element than a Sid.
C5_Witness ==
    /\ pc = "done"
    /\ elements # <<>>
    /\ IsNamedStar(elements[Len(elements)])
    /\ \E h \in 1..(Len(elements) - 1) :
           /\ is_procedure(TokenOf(h))
           /\ ~IsConnector(elements[h], "Sid")

\* C6 as stated: the element produced right after a Direct connector is a Point.
C6_PointAfterDirect ==
    \A j \in 2..Len(elements) :
        IsConnector(elements[j - 1], "Direct") => elements[j].type = "Point"

\* C6 amended: the element produced right after a Direct connector is never an
\* Airway, Nat or Pts connector; when it is a Point it is the point parse_point
\* returns for its token.
C6_NoAirwayAfterDirect ==
    \A j \in 2..Len(elements) :
        IsConnector(elements[j - 1], "Direct")
        => /\ ~IsConnector(elements[j], "Airway")
           /\ ~IsConnector(elements[j], "Nat")
           /\ ~IsConnector(elements[j], "Pts")
           /\ elements[j].type = "Point"
              => Some(elements[j].point) = parse_point(TokenOf(j))

\* C6 witness: a token that is_airway accepts, emitted as a Point after a Direct.
C6_Witness ==
    \E j \in 2..Len(elements) :
        /\ IsConnector(elements[j - 1], "Direct")
        /\ elements[j].type = "Point"
        /\ is_airway(TokenOf(j)) = Some(TRUE)

\* A token that parse_altitude accepts as a level, with or without PLUS.
LevelOf(sp) == parse_altitude(sp.base_token)
IsLevel(sp) ==
    /\ LevelOf(sp).tag = "Some"
    /\ LevelOf(sp).val # AltitudeVfr
AltitudeOnly(sp) ==
    [speed |-> None, altitude |-> LevelOf(sp), cruise_climb |-> sp.cruise_climb]

\* C7: for every token that parse_altitude accepts as a level, optionally
\* followed by PLUS, parse_modifier returns a Modifier with no speed and that
\* altitude, and once parse has returned after reaching the end of the tokens
\* the token was emitted as that Modifier element.
C7_AltitudeAloneIsModifier ==
    \A k \in 1..Len(tokens) :
        IsLevel(split_plus(tokens[k]))
        => /\ parse_modifier(tokens[k]) = Some(AltitudeOnly(split_plus(tokens[k])))
           /\ (pc = "done" /\ i = Len(tokens))
              => EmittedFrom(k, ModifierElement(AltitudeOnly(split_plus(tokens[k]))))

\* C8: every Modifier element has an altitude, and its cruise_climb flag is
\* true exactly when the token it was produced from ends with PLUS.
C8_ModifierHasAltitude ==
    \A j \in 1..Len(elements) :
        elements[j].type = "Modifier"
        => /\ elements[j].modifier.altitude.tag = "Some"
           /\ elements[j].modifier.cruise_climb = ends_with(TokenOf(j), Bytes("PLUS"))

\* C8 witness: a Modifier with a speed, a level and cruise_climb set has been
\* emitted after another element.
C8_Witness ==
    \E j \in 2..Len(elements) :
        /\ elements[j].type = "Modifier"
        /\ elements[j].modifier.cruise_climb
        /\ elements[j].modifier.speed.tag = "Some"
        /\ elements[j].modifier.altitude.val.unit = "FlightLevel"

\* C9: parse_point returns a Coordinate point for every token for which
\* is_coordinate is true, and such a token that reaches the point rule is
\* bound to that Coordinate.
C9_CoordinateTokenIsCoordinate ==
    /\ \A k \in 1..Len(tokens) :
           is_coordinate(tokens[k])
           => /\ parse_point(tokens[k]).tag = "Some"
              /\ parse_point(tokens[k]).val.kind = "Coordinate"
    /\ (pc \in {"point", "dropped", "after_direct"} /\ is_coordinate(tokens[i + 1]))
       => /\ bound.tag = "Some"
          /\ bound.val.kind = "Coordinate"

\* The trailing six digits of a token longer than six bytes.
HasTrailingDigits(token) ==
    /\ Len(token) > 6
    /\ all_ascii_digit(SubSeq(token, Len(token) - 5, Len(token)))
TrailingBearing(token) == Number(SubSeq(token, Len(token) - 5, Len(token) - 3))

\* C10: every BearingDistance point has bearing <= 360 and distance <= 999 and
\* a Waypoint or a Coordinate as its inner point, and no token whose trailing
\* six digits give a bearing above 360 is emitted as BearingDistance.
C10_BearingDistanceInRange ==
    \A j \in 1..Len(elements) :
        /\ IsPoint(elements[j], "BearingDistance")
           => /\ elements[j].point.bearing <= 360
              /\ elements[j].point.distance <= 999
              /\ elements[j].point.point.kind \in {"Waypoint", "Coordinate"}
        /\ (HasTrailingDigits(TokenOf(j)) /\ TrailingBearing(TokenOf(j)) > 360)
           => ~IsPoint(elements[j], "BearingDistance")

\* C10 witness: a BearingDistance point at the limits 360 and 999 has been
\* emitted.
C10_Witness ==
    \E j \in 1..Len(elements) :
        /\ IsPoint(elements[j], "BearingDistance")
        /\ elements[j].point.bearing = 360
        /\ elements[j].point.distance = 999

Measure ==
    IF pc = "start" THEN 2 * Len(tokenize(route)) + 2
    ELSE IF pc \in {"done", "panicked"} THEN 0
    ELSE IF pc = "loop" THEN 2 * (Len(tokens) - i) + 1
    ELSE 2 * (Len(tokens) - i)

\* The step that ends an iteration of the loop.
EndsIteration == pc \notin {"start", "loop", "done", "panicked"}

Left == last.left
Right == last.right
Result == last.result.val

\* The elements of a collection stand in increasing start order, each
\* starting after the one before it stops.
Separated(elts) ==
    \A k \in 1..(Len(elts) - 1) :
        /\ elts[k].start < elts[k + 1].start
        /\ elts[k].stop < elts[k + 1].start

\* No two elements of a collection overlap strictly.
NonOverlapping(elts) ==
    \A j \in 1..Len(elts) : \A k \in (j + 1)..Len(elts) : ~overlap(elts[j], elts[k])

\* The scalars a collection covers, told by the points and the midpoints
\* between them (twice their value).
Points(x) == (2 * x.start)..(2 * x.stop)
Covered(elts) == UNION {Points(elts[k]) : k \in 1..Len(elts)}

\* C13: the union of two non-empty collections of well-formed intervals is
\* returned, and its elements are in strictly increasing start order, each
\* starting after the one before it stops, and pairwise non-overlapping.
C13_UnionSeparated ==
    last.op = "add"
    => /\ last.result.tag = "Some"
       /\ Separated(Result)
       /\ NonOverlapping(Result)

\* C13 witness: a union of two elements or more, of operands of which one is
\* not in increasing order and whose elements overlap.
C13_Witness ==
    /\ last.op = "add"
    /\ last.result.tag = "Some"
    /\ Len(Result) >= 2
    /\ ~Separated(Left)
    /\ ~NonOverlapping(Left \o Right)

\* C14: the sweep of a union starts from the minimum of all elements of both
\* operands, in any order, and the union covers exactly the scalars that some
\* element of an operand covers.
C14_UnionCoversOperands ==
    last.op = "add"
    => /\ last.result.tag = "Some"
       /\ Result[1].start = iter_min(chained(Left, Right)).start
       /\ Covered(Result) = Covered(Left) \cup Covered(Right)

\* The elements of a set chain end to end: each but the least starts where
\* another stops.
ChainEndToEnd(S) ==
    \A x \in S : x = iter_min(S) \/ \E y \in S \ {x} : y.stop = x.start

InputIntervals == {inputs[k][1] : k \in 1..Len(inputs)}
IsMaximal(x, points) ==
    /\ Points(x) \subseteq points
    /\ 2 * x.start - 1 \notin points
    /\ 2 * x.stop + 1 \notin points
Merged(S) ==
    {x \in {Interval(a.start, b.stop) : a \in S, b \in S} :
        x.start <= x.stop /\ IsMaximal(x, UNION {Points(y) : y \in S})}

\* C16: whatever the grouping and the order in which single intervals are
\* combined with +, no union aborts and the collection left at the end holds
\* the maximal merged intervals, in increasing order.
C16_UnionIgnoresGrouping ==
    (\A k \in 1..Len(ops) : ops[k] = "add")
    => /\ last.result.tag # "Panic"
       /\ Len(pool) = 1
          => /\ Separated(pool[1])
             /\ {pool[1][k] : k \in 1..Len(pool[1])} = Merged(InputIntervals)

\* C16 witness: three intervals given out of order, two of which merge, have
\* been combined by two unions.
C16_Witness ==
    /\ ops = <<"add", "add">>
    /\ Len(pool) = 1
    /\ Len(pool[1]) = 2
    /\ inputs[1][1].start > inputs[3][1].stop

\* C17: the intersection x & x of a well-formed interval with itself,
\* start = stop included, is Some(x).
C17_IntersectionIdempotent ==
    (last.op = "interval_bitand" /\ Left = Right)
    => last.result = Some(Left[1])

\* The duration of the intersection of two intervals, nothing when there is none.
CommonDuration(r) == IF r.tag = "Some" THEN duration(r.val) ELSE 0

\* C18 as stated: the total duration of a + b is at most the sum of the
\* durations of a and b, and equal to it exactly when a and b do not strictly
\* overlap.
C18_DurationEqualIffNoOverlap ==
    (last.op = "add" /\ Len(Left) = 1 /\ Len(Right) = 1)
    => /\ last.result.tag = "Some"
       /\ total_duration(Result) <= duration(Left[1]) + duration(Right[1])
       /\ (total_duration(Result) = duration(Left[1]) + duration(Right[1]))
          <=> ~overlap(Left[1], Right[1])

\* C18 amended: the total duration of a + b is the sum of the durations of a
\* and b less the duration of a & b, so it is at most the sum, and equal to it
\* exactly when a & b is none or has no duration.
C18_DurationLessCommon ==
    (last.op = "add" /\ Len(Left) = 1 /\ Len(Right) = 1)
    => /\ last.result.tag = "Some"
       /\ total_duration(Result) <= duration(Left[1]) + duration(Right[1])
       /\ total_duration(Result) =
              duration(Left[1]) + duration(Right[1])
                  - CommonDuration(bitand(Left[1], Right[1]))
       /\ (total_duration(Result) = duration(Left[1]) + duration(Right[1]))
          <=> (~overlap(Left[1], Right[1])
                 \/ duration(bitand(Left[1], Right[1]).val) = 0)

\* C18 witness: the union of an interval without duration and an interval
\* that strictly overlaps it.
C18_Witness ==
    /\ last.op = "add"
    /\ Len(Left) = 1
    /\ Len(Right) = 1
    /\ overlap(Left[1], Right[1])
    /\ duration(Left[1]) = 0
    /\ duration(Right[1]) > 0
    /\ last.result = Some(Right)

\* C19: (a - b) + (a & b) + (b - a) evaluates to a collection, which covers
\* exactly the scalars that a or b covers.
C19_PartitionCoversBoth ==
    last.op = "partition"
    => /\ last.result.tag = "Some"
       /\ Covered(Result) = Covered(Left) \cup Covered(Right)

\* C20: no collection obtained from single intervals by unions, differences
\* and intersections has two elements that strictly overlap.
C20_ResultsNonOverlapping ==
    /\ \A k \in 1..Len(pool) : NonOverlapping(pool[k])
    /\ (last.op \in {"add", "sub", "bitand"} /\ last.result.tag = "Some")
       => NonOverlapping(Result)

\* C20 witness: a union, a difference and an intersection have left
\* a collection of two elements.
C20_Witness ==
    /\ Len(ops) = 2
    /\ "sub" \in {ops[1], ops[2]}
    /\ "bitand" \in {ops[1], ops[2]}
    /\ Len(pool) = 1
    /\ Len(pool[1]) >= 2

\* What a difference leaves of the element a when b is taken from it.
KeptOrCut(a, b) ==
    IF ~(a.start < b.stop /\ a.stop > b.start) THEN <<a>>
    ELSE (IF b.start > a.start THEN <<Interval(a.start, b.start)>> ELSE <<>>)
         \o (IF b.stop < a.stop THEN <<Interval(b.stop, a.stop)>> ELSE <<>>)

\* The points strictly inside the elements of a collection.
Interior(elts) ==
    UNION {(2 * elts[k].start + 1)..(2 * elts[k].stop - 1) : k \in 1..Len(elts)}

\* C21: A - b keeps in place the elements of A that do not strictly overlap b
\* and replaces an overlapping element a by [a.start, b.start] when
\* b.start > a.start and by [b.stop, a.stop] when b.stop < a.stop; A - B is
\* the fold of this over the elements of B; no element of the result strictly
\* overlaps an element of B, and the result covers nothing but what A covers
\* outside the interior of B, and all that A covers outside B.
C21_DifferenceCutsOverlaps ==
    last.op = "sub"
    => /\ last.result.tag = "Some"
       /\ Len(Right) = 1
          => Result = Concat([k \in 1..Len(Left) |-> KeptOrCut(Left[k], Right[1])])
       /\ Right # <<>>
          => Result = sub_interval(sub(Left, SubSeq(Right, 1, Len(Right) - 1)),
                                   Right[Len(Right)])
       /\ \A j \in 1..Len(Result) : \A k \in 1..Len(Right) : ~overlap(Result[j], Right[k])
       /\ Covered(Result) \subseteq Covered(Left) \ Interior(Right)
       /\ Covered(Left) \ Covered(Right) \subseteq Covered(Result)

\* C21 witness: an interval is taken from a collection of two elements, of
\* which the first is cut in two and the second is kept in place.
C21_Witness ==
    /\ last.op = "sub"
    /\ Len(Left) = 2
    /\ Len(Right) = 1
    /\ Len(Result) = 3
    /\ Result[3] = Left[2]
    /\ Result[1].stop = Right[1].start
    /\ Result[2].start = Right[1].stop

\* The intersection, if any, of the n-th pair of elements, the pairs being
\* counted over the elements of B and, for one element of B, over those of A.
IsSome(r) == r.tag = "Some"
ValueOf(r) == r.val
PairwiseCommon(A, B) ==
    [n \in 1..(Len(A) * Len(B)) |->
        bitand(A[((n - 1) % Len(A)) + 1], B[((n - 1) \div Len(A)) + 1])]
Values(rs) == [n \in 1..Len(rs) |-> ValueOf(rs[n])]

\* C22: A & B holds exactly the non-empty intersections a & b of an element a
\* of A and an element b of B, in the order of the elements of B and, for one
\* element of B, in the order of the elements of A.
C22_IntersectionOrder ==
    last.op = "bitand"
    => last.result = Some(Values(SelectSeq(PairwiseCommon(Left, Right), IsSome)))

\* C22 witness: two collections of two elements each, whose intersections
\* come out in the order of B, which is not the order of A.
C22_Witness ==
    /\ last.op = "bitand"
    /\ Left = <<Interval(0, 1), Interval(1, 2)>>
    /\ Right = <<Interval(1, 2), Interval(0, 1)>>
    /\ Result = <<Interval(1, 2), Interval(0, 1)>>

\* C23: in both implementations a & b is an interval exactly when
\* a.start < b.stop and a.stop > b.start, so it is none for two intervals
\* that share only an endpoint.
C23_OverlapStrictEverywhere ==
    last.op \in {"interval_bitand", "src_bitand"}
    => /\ last.result.tag = "Some"
          <=> (Left[1].start < Right[1].stop /\ Left[1].stop > Right[1].start)
       /\ (Left[1].stop = Right[1].start /\ Left[1].start < Right[1].stop)
          => last.result = None

\* C24: the union of a collection and an empty collection is returned, and it
\* covers what the other operand covers, its elements standing apart in
\* increasing order.
C24_UnionDefinedOnEmpty ==
    (last.op = "add" /\ (Left = <<>> \/ Right = <<>>))
    => /\ last.result.tag = "Some"
       /\ Covered(Result) = Covered(Left \o Right)
       /\ Separated(Result)

\* The token at position k has been consumed, and an element was produced
\* from it.
Consumed(k) == i >= k
Yielded(k) == \E j \in 1..Len(elements) : emitted_at[j] = k - 1

\* C25: a token that is_coordinate accepts and parse_coordinate rejects is not
\* lost: once consumed, it has yielded an element.
C25_RejectedCoordinateYields ==
    \A k \in 1..Len(tokens) :
        (Consumed(k) /\ is_coordinate(tokens[k]) /\ parse_coordinate(tokens[k]) = None)
        => Yielded(k)

\* An element that sets first_point_parsed: a Point, a Sid or a Star.
SetsFlag(e) == e.type = "Point" \/ IsConnector(e, "Sid") \/ IsConnector(e, "Star")

\* Some element produced from a token before position k sets first_point_parsed.
FlagSetBefore(k) ==
    \E j \in 1..Len(elements) : emitted_at[j] < k - 1 /\ SetsFlag(elements[j])

\* C26: a token that satisfies is_procedure and is consumed while no Point, Sid
\* or Star has been emitted, so while first_point_parsed is false, is emitted
\* as Sid with the token as payload, be it the last token of the input or not.
C26_FirstProcedureIsSid ==
    \A k \in 1..Len(tokens) :
        (Consumed(k) /\ is_procedure(tokens[k]) /\ ~FlagSetBefore(k))
        => EmittedFrom(k, ConnectorElement("Sid", tokens[k]))

\* C26 witness: parse has returned a Sid for the last token of the input,
\* which follows a modifier and an airway.
C26_Witness ==
    /\ pc = "done"
    /\ Len(tokens) = 3
    /\ Len(elements) = 3
    /\ elements[1].type = "Modifier"
    /\ IsConnector(elements[2], "Airway")
    /\ elements[3] = ConnectorElement("Sid", tokens[3])

\* C28: first_point_parsed starts false, is never reset, and is true exactly
\* when a Point, a Sid or a Star has been emitted; an output holds at most one
\* Sid that carries a procedure designator, and no Point, Sid or Star stands
\* before it.
C28_OneNamedSid ==
    /\ [](pc = "start" => ~first_point_parsed)
    /\ [][first_point_parsed => first_point_parsed']_vars
    /\ [](first_point_parsed <=> \E j \in 1..Len(elements) : SetsFlag(elements[j]))
    /\ [](\A j \in 1..Len(elements) :
              IsNamedSid(elements[j])
              => /\ \A h \in 1..(j - 1) : ~SetsFlag(elements[h])
                 /\ \A h \in (j + 1)..Len(elements) : ~IsNamedSid(elements[h]))

\* C28 witness: parse has returned a designator Sid followed by the element of
\* another token that satisfies is_procedure.
C28_Witness ==
    /\ pc = "done"
    /\ Len(elements) >= 2
    /\ IsNamedSid(elements[1])
    /\ is_procedure(TokenOf(2))

\* The tokens of the fixed keyword connectors.
FixedKeywords ==
    { Bytes("DCT"), Bytes("VFR"), Bytes("IFR"), Bytes("OAT"), Bytes("GAT"),
      Bytes("IFPSTOP"), Bytes("IFPSTART") }
FixedKinds == {"Direct", "Vfr", "Ifr", "Oat", "Gat", "IfpStop", "IfpStart"}

\* C30: no element is the Stay connector; a connector without payload is one
\* of the seven fixed ones and was produced from its keyword, a Sid or Star
\* with the literal payload from the token SID or STAR; the token STAY, once
\* consumed, was emitted as the aerodrome STAY.
C30_NoStayConnector ==
    /\ \A j \in 1..Len(elements) :
           elements[j].type = "Connector"
           => /\ elements[j].kind # "Stay"
              /\ elements[j].kind \in FixedKinds <=> TokenOf(j) \in FixedKeywords
              /\ elements[j].kind \in FixedKinds
                 => elements[j] = ConnectorElement(keyword_connector(TokenOf(j)).val, NoName)
              /\ elements[j].name = Bytes("SID") => TokenOf(j) = Bytes("SID")
              /\ elements[j].name = Bytes("STAR") => TokenOf(j) = Bytes("STAR")
    /\ \A k \in 1..Len(tokens) :
           (Consumed(k) /\ tokens[k] = Bytes("STAY"))
           => EmittedFrom(k, PointElement(Aerodrome(Bytes("STAY"))))

\* C30 witness: parse has returned the aerodrome STAY after a DCT.
C30_Witness ==
    /\ pc = "done"
    /\ Len(elements) = 2
    /\ IsConnector(elements[1], "Direct")
    /\ elements[2] = PointElement(Aerodrome(Bytes("STAY")))

\* The delimiters of the tokenizer, and the offsets (from 1) at which a token
\* starts: a slash, or a byte that is no delimiter and follows one or nothing.
IsDelimiter(ch) == ch \in {" ", "\t", "\n", "\r", "/"}
TokenStarts(r) ==
    {p \in 1..Len(r) :
        \/ r[p] = "/"
        \/ ~IsDelimiter(r[p]) /\ (p = 1 \/ IsDelimiter(r[p - 1]))}

\* The end of the maximal run without delimiter that starts at p.
RunEnd(r, p) ==
    CHOOSE q \in p..Len(r) :
        /\ \A h \in p..q : ~IsDelimiter(r[h])
        /\ q = Len(r) \/ IsDelimiter(r[q + 1])
TokenAt(r, p) == IF r[p] = "/" THEN <<"/">> ELSE SubSeq(r, p, RunEnd(r, p))
Rank(S, p) == Cardinality({q \in S : q <= p})

\* C27: the tokens are, in input order, the maximal runs of characters other
\* than space, tab, newline, carriage return and slash, and one "/" for each
\* slash, at its place; no token is empty and none holds a delimiter other
\* than the "/" tokens themselves.
C27_TokensAreMaximalRuns ==
    pc \notin {"start", "idle"}
    => /\ Len(tokens) = Cardinality(TokenStarts(route))
       /\ \A p \in TokenStarts(route) :
              tokens[Rank(TokenStarts(route), p)] = TokenAt(route, p)
       /\ \A k \in 1..Len(tokens) :
              /\ tokens[k] # <<>>
              /\ tokens[k] = <<"/">> \/ \A h \in 1..Len(tokens[k]) : ~IsDelimiter(tokens[k][h])

\* C27 witness: a route where a slash follows a token at once and a tab and
\* a space follow the slash.
C27_Witness ==
    /\ pc = "loop"
    /\ route = <<"A", "/", "\t", " ">>
    /\ tokens = <<<<"A">>, <<"/">>>>

\* The element a branch of the chain pushes for the token at index k, if any.
pushed_element(taken, k, toks) ==
    IF taken.branch = "modifier" THEN Some(ModifierElement(taken.bound.val))
    ELSE IF taken.branch = "keyword"
    THEN Some(ConnectorElement(keyword_connector(toks[k + 1]).val, NoName))
    ELSE IF taken.branch = "sid_literal" THEN Some(ConnectorElement("Sid", Bytes("SID")))
    ELSE IF taken.branch = "star_literal" THEN Some(ConnectorElement("Star", Bytes("STAR")))
    ELSE IF taken.branch = "sid" THEN Some(ConnectorElement("Sid", toks[k + 1]))
    ELSE IF taken.branch = "star" THEN Some(ConnectorElement("Star", toks[k + 1]))
    ELSE IF taken.branch = "after_direct"
    THEN (IF taken.bound.tag = "Some" THEN Some(PointElement(taken.bound.val)) ELSE None)
    ELSE IF taken.branch = "nat" THEN Some(ConnectorElement("Nat", toks[k + 1]))
    ELSE IF taken.branch = "pts" THEN Some(ConnectorElement("Pts", toks[k + 1]))
    ELSE IF taken.branch = "airway"
    THEN (IF is_last_token(k, toks) /\ is_procedure(toks[k + 1])
          THEN Some(ConnectorElement("Star", toks[k + 1]))
          ELSE Some(ConnectorElement("Airway", toks[k + 1])))
    ELSE IF taken.branch = "point" THEN Some(PointElement(taken.bound.val))
    ELSE None

\* The loop of parse as a function of the tokens: the elements returned, or
\* Panic when parse aborts.
RECURSIVE parse_loop(_, _, _, _)
parse_pushed(toks, k, fpp, elems, e) ==
    IF e.tag = "Some"
    THEN parse_loop(toks, k + 1, fpp \/ SetsFlag(e.val), Append(elems, e.val))
    ELSE parse_loop(toks, k + 1, fpp, elems)
parse_taken(toks, k, fpp, elems, taken) ==
    IF taken.branch = "truncate" THEN Some(elems)
    ELSE IF taken.branch = "panic" THEN Panic
    ELSE parse_pushed(toks, k, fpp, elems, pushed_element(taken, k, toks))
parse_loop(toks, k, fpp, elems) ==
    IF k >= Len(toks) THEN Some(elems)
    ELSE parse_taken(toks, k, fpp, elems, chain(toks[k + 1], k, toks, fpp, elems))
parse_tokens(toks) == parse_loop(toks, 0, FALSE, <<>>)

\* The position of the first "T" among the tokens, and the tokens before it.
HasTruncate == \E k \in 1..Len(tokens) : tokens[k] = Bytes("T")
FirstTruncate == CHOOSE k \in 1..Len(tokens) :
    tokens[k] = Bytes("T") /\ \A h \in 1..(k - 1) : tokens[h] # Bytes("T")
Prefix == SubSeq(tokens, 1, FirstTruncate - 1)

\* C29 as stated: when the tokens are p, "T" and q, p holding no "T", parse
\* returns the elements that parse returns for p.
C29_TruncateIsPrefix ==
    (pc = "done" /\ HasTruncate) => Some(elements) = parse_tokens(Prefix)

\* The last token before the first "T" is emitted as a Star when it stands
\* last in the input.
EndsWithStar(p) ==
    /\ p # <<>>
    /\ parse_tokens(p).val # <<>>
    /\ parse_tokens(p).val[Len(parse_tokens(p).val)] = ConnectorElement("Star", p[Len(p)])
    /\ p[Len(p)] # Bytes("STAR")

\* C29 amended: when the tokens are p, "T" and q, p holding no "T", parse
\* returns the elements that parse returns for p followed by "T" alone; these
\* are the elements parse returns for p unless parse emits the last token of
\* p as a designator Star, which it does only for a last token of the input:
\* then the two outputs agree on the elements of the tokens before it and
\* differ on that token, which is no Star before "T".  What parse returns is
\* the function parse_tokens of its tokens.
C29_TruncateIsPrefixButStar ==
    /\ pc = "done" => Some(elements) = parse_tokens(tokens)
    /\ (pc = "done" /\ HasTruncate)
       => /\ Some(elements) = parse_tokens(Append(Prefix, Bytes("T")))
          /\ ~EndsWithStar(Prefix) => Some(elements) = parse_tokens(Prefix)
          /\ EndsWithStar(Prefix)
             => /\ Some(elements) # parse_tokens(Prefix)
                /\ ~EmittedFrom(Len(Prefix), ConnectorElement("Star", Prefix[Len(Prefix)]))
                /\ \A j \in 1..(Len(parse_tokens(Prefix).val) - 1) :
                       /\ j <= Len(elements)
                       /\ elements[j] = parse_tokens(Prefix).val[j]
                /\ \A j \in 1..Len(elements) :
                       j >= Len(parse_tokens(Prefix).val) => emitted_at[j] = Len(Prefix) - 1

\* C29 witness: parse has returned at a "T" that follows a point and a token
\* that satisfies is_procedure, which it has not emitted as a Star.
C29_Witness ==
    /\ pc = "done"
    /\ Len(tokens) = 3
    /\ tokens[3] = Bytes("T")
    /\ is_procedure(tokens[2])
    /\ Len(elements) = 2
    /\ elements[1].type = "Point"
    /\ ~IsConnector(elements[2], "Star")

====
